---- MODULE Spec2Model ----
(***************************************************************************)
(* Model of curation_service/app.py: the curation pull-through cache       *)
(* (CURATIONS, update_curations and the /curations handlers) and the       *)
(* lazy render-and-cache pipeline of /json/<name>.                         *)
(***************************************************************************)
EXTENDS Integers, Sequences, FiniteSets, TLC

\* ------------------------------------------------------------------ bounds
\* rows ever inserted into the Curation table (by this process or others)
MaxRows == 2
\* the clock is advanced while now <= MaxHours * (StaleSeconds + 1)
MaxHours == 1
\* rows ever deleted from the Curation table
MaxDeletes == 1
\* statements in a pickle whose ordering is checked
MaxStmts == 3
\* GET /json requests served at the same time
MaxRenders == 2

\* ------------------------------------------------------- program constants
\* get_curation / get_curation_list: "> 3600  # one hour"
StaleSeconds == 3600

\* ------------------------------------------------------------ value domains
\* statement hashes the database knows, and one it does not know
KnownHashes == {1, 2}
UnknownHashes == {3}
SourceHashes == {5}

\* A JSON / URL value that stands for a number: <<"int", n>> is the JSON
\* number n, <<"str", n>> is the decimal string of n.
JInt(n) == <<"int", n>>
JStr(n) == <<"str", n>>
\* int(v): the number a JSON number or a decimal string stands for
ToInt(v) == v[2]
\* str(n)
ToStr(n) == JStr(n)

\* CURATIONS['last_updated']: None, or a one-element tuple holding the time
None == <<>>
Stamp(t) == <<t>>

\* a dict with no keys
EmptyDict == [k \in {} |-> <<>>]
\* dict.get(key, [])
DictGet(d, key) == IF key \in DOMAIN d THEN d[key] ELSE <<>>

VARIABLES
    now,            \* datetime.now(), in seconds
    last_updated,   \* CURATIONS['last_updated']
    cache,          \* CURATIONS['cache']: dict (pa_hash, source_hash) -> list
    db,             \* rows of the Curation table, in query-return order
    nextId,         \* next identifier the table hands out
    files,          \* the working directory: file name -> content
    resp,           \* what the last handler call answered and did
    appended,       \* ids appended by submits since the last update_curations
    threads         \* requests in flight: where each stands, what it holds

vars == <<now, last_updated, cache, db, nextId, files, resp, appended,
          threads>>

\* ---------------------------------------------------------------- responses
NoDoc == [grouped |-> FALSE, stmts |-> <<>>]
Response(op, status) ==
    [op |-> op, status |-> status, key |-> <<>>, records |-> <<>>,
     listing |-> {}, id |-> <<>>, refreshes |-> 0, refresh_raised |-> FALSE,
     doc |-> NoDoc, name |-> <<>>, regen |-> FALSE, wrote |-> <<>>,
     fault |-> "none", names |-> {}]

\* ------------------------------------------------------ update_curations()
\* the dict built for one row by the attr_maps loop
CurDict(curation) ==
    [id |-> curation.id,
     stmt_hash |-> JInt(curation.pa_hash),
     source_hash |-> JInt(curation.source_hash)]

\* mutant: the key is built with the two hashes swapped
AddCuration_SwappedKey(c, curation) ==
    LET key == <<curation.source_hash, curation.pa_hash>>
        c1 == IF key \notin DOMAIN c THEN c @@ (key :> <<>>) ELSE c
    IN [c1 EXCEPT ![key] = Append(@, CurDict(curation))]

\* the loop body over one row: create the list if the key is new, append
AddCuration(c, curation) ==
    LET key == <<curation.pa_hash, curation.source_hash>>
        c1 == IF key \notin DOMAIN c THEN c @@ (key :> <<>>) ELSE c
    IN [c1 EXCEPT ![key] = Append(@, CurDict(curation))]

RECURSIVE BuildCache(_, _)
BuildCache(curations, c) ==
    IF curations = <<>> THEN c
    ELSE BuildCache(Tail(curations), AddCuration(c, Head(curations)))

\* mutant: the rows are merged into the cache as it is
update_curations_Merge(dbOk) ==
    IF dbOk
    THEN [cache |-> BuildCache(db, cache), last_updated |-> Stamp(now),
          raised |-> FALSE, calls |-> 1]
    ELSE [cache |-> EmptyDict, last_updated |-> last_updated,
          raised |-> TRUE, calls |-> 1]

\* update_curations(): dbOk = FALSE is get_db / select_all raising, which
\* happens after the cache was reset and before the stamp
update_curations(dbOk) ==
    IF dbOk
    THEN [cache |-> BuildCache(db, EmptyDict), last_updated |-> Stamp(now),
          raised |-> FALSE, calls |-> 1]
    ELSE [cache |-> EmptyDict, last_updated |-> last_updated,
          raised |-> TRUE, calls |-> 1]

\* mutant: the cache counts as stale from one hour on
IsStale_AtOneHour == now - last_updated[1] >= StaleSeconds

\* the staleness test of get_curation and get_curation_list
IsStale == now - last_updated[1] > StaleSeconds

\* the first three lines of both read handlers
RefreshIfStale(dbOk) ==
    IF IsStale THEN update_curations(dbOk)
    ELSE [cache |-> cache, last_updated |-> last_updated,
          raised |-> FALSE, calls |-> 0]

\* ------------------------------------------------------ requests in flight
\* update_curations() in flight: pc is "idle" (none), "reset" (line 282
\* done) or "rows" (select_all returned `rows`, the loop has not consumed
\* them all); had is the set of keys of the map line 282 replaced
IdleUpdate == [pc |-> "idle", rows |-> <<>>, had |-> {}]
\* a GET /json request in flight: pc is "idle" (not arrived), "built" (the
\* document is built, _put_file not yet called) or "done"
IdleRender ==
    [pc |-> "idle", name |-> <<>>, regen |-> FALSE, grouped |-> FALSE,
     status |-> 0, path |-> <<>>, doc |-> NoDoc]
\* sub is <<>> or holds the key and the entry of a submit whose row is
\* persisted and whose entry is not yet in the cache; overlap holds the
\* pairs of GET /json requests that were in flight at the same time
NoThreads ==
    [upd |-> IdleUpdate, sub |-> <<>>,
     rnd |-> [t \in 1..MaxRenders |-> IdleRender], overlap |-> {}]

\* ------------------------------------------------------------------- Init
Init ==
    /\ now = 0
    /\ last_updated = None
    /\ cache = EmptyDict
    /\ db = <<>>
    /\ nextId = 1
    /\ files = EmptyDict
    /\ resp = Response("none", 0)
    /\ appended = {}
    /\ threads = NoThreads

\* ------------------------------------------------------------- environment
\* time passes
Tick ==
    /\ \E d \in {StaleSeconds, StaleSeconds + 1} :
         /\ now + d <= MaxHours * (StaleSeconds + 1)
         /\ now' = now + d
    /\ UNCHANGED <<last_updated, cache, db, nextId, files, resp, appended,
                   threads>>

\* another process inserts a curation row
ExtInsert ==
    /\ nextId <= MaxRows
    /\ \E pa \in KnownHashes, src \in SourceHashes :
         db' = Append(db, [id |-> nextId, pa_hash |-> pa, source_hash |-> src])
    /\ nextId' = nextId + 1
    /\ UNCHANGED <<now, last_updated, cache, files, resp, appended, threads>>

\* a row is deleted from the table
ExtDelete ==
    /\ (nextId - 1) - Len(db) < MaxDeletes
    /\ \E i \in 1..Len(db) :
         db' = SubSeq(db, 1, i - 1) \o SubSeq(db, i + 1, Len(db))
    /\ UNCHANGED <<now, last_updated, cache, nextId, files, resp, appended,
                   threads>>

\* --------------------------------------------------------------- handlers
\* __main__: update_curations() before app.run(); if it raises the process
\* never serves, which leaves the initial state
Main ==
    /\ last_updated = None
    /\ resp.op = "none"
    /\ threads = NoThreads
    /\ LET u == update_curations(TRUE)
       IN /\ cache' = u.cache
          /\ last_updated' = u.last_updated
    /\ appended' = {}
    /\ resp' = [Response("main", 0) EXCEPT !.refreshes = 1]
    /\ UNCHANGED <<now, db, nextId, files, threads>>

\* indra_db.client.submit_curation as the handler sees it: BadHashError for
\* a statement hash the database does not know, else a new row and its id
submit_curation(pa_hash) ==
    IF pa_hash \in KnownHashes THEN "ok" ELSE "BadHashError"

\* mutant: the list of the key is replaced by the new entry
CacheAppend_Replace(c, key, entry) ==
    LET c1 == IF key \notin DOMAIN c THEN c @@ (key :> <<>>) ELSE c
    IN [c1 EXCEPT ![key] = <<entry>>]

\* "if key not in CURATIONS['cache']: ... = []" and the append
CacheAppend(c, key, entry) ==
    LET c1 == IF key \notin DOMAIN c THEN c @@ (key :> <<>>) ELSE c
    IN [c1 EXCEPT ![key] = Append(@, entry)]

\* mutant: the entry is cached whatever submit_curation did
CacheAfterSubmit_Always(c, key, entry, outcome) ==
    LET c1 == IF key \notin DOMAIN c THEN c @@ (key :> <<>>) ELSE c
    IN [c1 EXCEPT ![key] = Append(@, entry)]

\* the cache a submit leaves: the except branch aborts before the append
CacheAfterSubmit(c, key, entry, outcome) ==
    IF outcome = "BadHashError" THEN c ELSE CacheAppend(c, key, entry)

\* POST /curations/submit with the given JSON body
SubmitRequest(stmt_hash, source_hash) ==
    LET pa_hash == ToInt(stmt_hash)
        src == ToInt(source_hash)
        key == <<pa_hash, src>>
        outcome == submit_curation(pa_hash)
        dbid == nextId
        entry == [id |-> dbid, stmt_hash |-> stmt_hash,
                  source_hash |-> source_hash]
    IN /\ outcome = "ok" => nextId <= MaxRows
       /\ cache' = CacheAfterSubmit(cache, key, entry, outcome)
       /\ IF outcome = "BadHashError"
          THEN \* abort(Response("Invalid hash: ...", 400))
               /\ resp' = [Response("submit", 400) EXCEPT !.key = key]
               /\ UNCHANGED <<db, nextId, appended>>
          ELSE /\ db' = Append(db, [id |-> dbid, pa_hash |-> pa_hash,
                                    source_hash |-> src])
               /\ nextId' = nextId + 1
               /\ appended' = appended \cup {<<key, dbid>>}
               /\ resp' = [Response("submit", 200) EXCEPT
                             !.key = key, !.id = <<dbid>>]
       /\ UNCHANGED <<now, last_updated, files, threads>>

\* the JSON bodies tried
SubmitStmtHashes ==
    {JInt(h) : h \in KnownHashes \cup UnknownHashes}
        \cup {JStr(h) : h \in KnownHashes}
SubmitSourceHashes == {JInt(h) : h \in SourceHashes}

submit_curation_to_db ==
    \E stmt_hash \in SubmitStmtHashes, source_hash \in SubmitSourceHashes :
      SubmitRequest(stmt_hash, source_hash)

\* GET /curations/<stmt_hash>/<ev_hash>
get_curation ==
    \E stmt_hash \in {JStr(h) : h \in KnownHashes},
       ev_hash \in {JStr(h) : h \in SourceHashes}, dbOk \in BOOLEAN :
      LET key == <<ToInt(stmt_hash), ToInt(ev_hash)>>
      IN IF last_updated = None
         THEN \* datetime.now() - None raises TypeError
              /\ resp' = [Response("get", 500) EXCEPT !.key = key]
              /\ UNCHANGED <<now, last_updated, cache, db, nextId, files,
                             appended, threads>>
         ELSE LET u == RefreshIfStale(dbOk)
              IN /\ cache' = u.cache
                 /\ last_updated' = u.last_updated
                 /\ appended' = IF u.calls > 0 THEN {} ELSE appended
                 /\ resp' = IF u.raised
                            THEN [Response("get", 500) EXCEPT
                                    !.key = key, !.refreshes = u.calls,
                                    !.refresh_raised = TRUE]
                            ELSE [Response("get", 200) EXCEPT
                                    !.key = key, !.refreshes = u.calls,
                                    !.records = DictGet(u.cache, key)]
                 /\ UNCHANGED <<now, db, nextId, files, threads>>

\* the body of GET /curations: one {'key', 'value'} per item of the dict
Listing(c) ==
    {[key |-> <<ToStr(k[1]), ToStr(k[2])>>, value |-> c[k]] : k \in DOMAIN c}

\* GET /curations
get_curation_list ==
    \E dbOk \in BOOLEAN :
      IF last_updated = None
      THEN /\ resp' = Response("list", 500)
           /\ UNCHANGED <<now, last_updated, cache, db, nextId, files,
                          appended, threads>>
      ELSE LET u == RefreshIfStale(dbOk)
           IN /\ cache' = u.cache
              /\ last_updated' = u.last_updated
              /\ appended' = IF u.calls > 0 THEN {} ELSE appended
              /\ resp' = IF u.raised
                         THEN [Response("list", 500) EXCEPT
                                 !.refreshes = u.calls,
                                 !.refresh_raised = TRUE]
                         ELSE [Response("list", 200) EXCEPT
                                 !.refreshes = u.calls,
                                 !.listing = Listing(u.cache)]
              /\ UNCHANGED <<now, db, nextId, files, threads>>

\* POST /curations/update_cache: the view returns None, which the framework
\* answers with a server error once update_curations() has run
update_curations_endpoint ==
    \E dbOk \in BOOLEAN :
      LET u == update_curations(dbOk)
      IN /\ cache' = u.cache
         /\ last_updated' = u.last_updated
         /\ appended' = {}
         /\ resp' = [Response("update_cache", 500) EXCEPT
                       !.refreshes = u.calls, !.refresh_raised = u.raised]
         /\ UNCHANGED <<now, db, nextId, files, threads>>

\* ------------------------------------------------- the working directory
\* A file name is a sequence of tokens: the characters of its stem, then its
\* endings, e.g. <<"a", "b", ".pkl">> is ab.pkl. A logical name is a stem.
Names == {<<"a">>, <<"a", "b">>}
FileName(stem, ending) == Append(stem, ending)

\* str.startswith / str.endswith / str.replace('.pkl', '.json')
StartsWith(fn, prefix) ==
    /\ Len(prefix) <= Len(fn)
    /\ SubSeq(fn, 1, Len(prefix)) = prefix
EndsWith(fn, ending) == fn # <<>> /\ fn[Len(fn)] = ending
ReplacePkl(fn) == [i \in DOMAIN fn |-> IF fn[i] = ".pkl" THEN ".json" ELSE fn[i]]

\* statements: a hash and the source hashes of the evidence
Stmt(h, ev) == [hash |-> h, evidence |-> ev]
StmtsA == <<Stmt(1, <<5>>), Stmt(4, <<6, 6>>)>>
StmtsB == <<Stmt(4, <<6>>), Stmt(1, <<5>>)>>

\* file contents: a pickled statement list, bytes that do not unpickle, or
\* a dumped document
Pickle(stmts) == [kind |-> "pickle", stmts |-> stmts, doc |-> NoDoc]
Corrupt == [kind |-> "corrupt", stmts |-> <<>>, doc |-> NoDoc]
\* json.dumps(result, indent=2) / json.loads(raw_content): the document is
\* made of strings, numbers, booleans, None, lists and string-keyed dicts,
\* which the pair maps back to themselves
JsonDumps(doc) == [kind |-> "json", stmts |-> <<>>, doc |-> doc]
JsonLoads(content) == content.doc
\* the pickles put under each logical name
RawContents(name) ==
    IF name = <<"a">> THEN {Pickle(StmtsA), Corrupt}
    ELSE {Pickle(StmtsB), Corrupt}

\* _list_files(name) on a directory read in the order `order`
_list_files(order, name) ==
    SelectSeq(order, LAMBDA fn : StartsWith(fn, name))

\* s3.list_objects_v2(Bucket=bucket, Prefix=prefix): the response has no
\* 'Contents' when no key matches
ListObjectsV2(order, prefix) ==
    LET keys == SelectSeq(order, LAMBDA fn : StartsWith(fn, prefix))
    IN IF keys = <<>> THEN [KeyCount |-> 0]
       ELSE [KeyCount |-> Len(keys), Contents |-> keys]

\* mutant: 'Contents' is read without the KeyCount test
_list_files_s3_NoKeyCount(order, name) ==
    LET list_resp == ListObjectsV2(order, name)
    IN IF "Contents" \in DOMAIN list_resp THEN list_resp.Contents
       ELSE <<<<"KeyError">>>>

\* _list_files(name) when WORKING_DIR is an s3 path
_list_files_s3(order, name) ==
    LET list_resp == ListObjectsV2(order, name)
    IN IF list_resp.KeyCount = 0 THEN <<>> ELSE list_resp.Contents

\* the orders os.listdir / list_objects_v2 may return the directory in
RECURSIVE Orderings(_)
Orderings(S) ==
    IF S = {} THEN {<<>>}
    ELSE UNION {{<<fn>> \o o : o \in Orderings(S \ {fn})} : fn \in S}

ScanOrders == Orderings(DOMAIN files)

\* mutant: a rendered file is selected whether or not regen was asked for
RECURSIVE SelectFile_IgnoreRegen(_, _, _)
SelectFile_IgnoreRegen(options, regenerate, file_path) ==
    IF options = <<>> THEN [file_path |-> file_path, is_json |-> FALSE]
    ELSE LET option == Head(options)
         IN IF EndsWith(option, ".json")
            THEN [file_path |-> option, is_json |-> TRUE]
            ELSE IF EndsWith(option, ".pkl")
            THEN SelectFile_IgnoreRegen(Tail(options), regenerate, option)
            ELSE SelectFile_IgnoreRegen(Tail(options), regenerate, file_path)

\* the selection loop of get_json_content; file_path None is <<>>
RECURSIVE SelectFile(_, _, _)
SelectFile(options, regenerate, file_path) ==
    IF options = <<>> THEN [file_path |-> file_path, is_json |-> FALSE]
    ELSE LET option == Head(options)
         IN IF EndsWith(option, ".json") /\ ~regenerate
            THEN [file_path |-> option, is_json |-> TRUE]
            ELSE IF EndsWith(option, ".pkl")
            THEN SelectFile(Tail(options), regenerate, option)
            ELSE SelectFile(Tail(options), regenerate, file_path)

\* mutant: the hash is the first component of the key
SortKey_HashFirst(stmt) == <<stmt.hash, Len(stmt.evidence)>>

\* key=lambda s: (len(s.evidence), s.get_hash()), compared as tuples
SortKey(stmt) == <<Len(stmt.evidence), stmt.hash>>
KeyLess(k1, k2) == k1[1] < k2[1] \/ (k1[1] = k2[1] /\ k1[2] < k2[2])

\* sorted(..., reverse=True) is stable: x goes behind every element whose
\* key is not smaller than its own
InsertDesc(sorted, x) ==
    LET keep == {i \in 1..Len(sorted) :
                   ~KeyLess(SortKey(sorted[i]), SortKey(x))}
        pos == IF keep = {} THEN 0
               ELSE CHOOSE i \in keep : \A j \in keep : j <= i
    IN SubSeq(sorted, 1, pos) \o <<x>> \o SubSeq(sorted, pos + 1, Len(sorted))

RECURSIVE SortInto(_, _)
SortInto(sorted, rest) ==
    IF rest = <<>> THEN sorted
    ELSE SortInto(InsertDesc(sorted, Head(rest)), Tail(rest))

SortedStmts(stmts) == SortInto(<<>>, stmts)

\* _format_evidence_text(stmt, CURATIONS['cache']) as far as it reads the
\* cache: one entry per evidence, with the curations found for it
FormatEvidenceText(stmt, c) ==
    [i \in DOMAIN stmt.evidence |->
        [source_hash |-> stmt.evidence[i],
         num_curations |-> Len(DictGet(c, <<stmt.hash, stmt.evidence[i]>>))]]

\* stmt_dict of the ungrouped loop
StmtDict(stmt, c) ==
    [evidence |-> FormatEvidenceText(stmt, c),
     english |-> <<"english", stmt.hash>>,
     evidence_count |-> Len(stmt.evidence),
     hash |-> ToStr(stmt.hash),
     source_count |-> None]

\* HtmlAssembler(stmts, curation_dict=...).make_json_model() with 'key'
\* attached: here one group per statement hash, in order of appearance
RECURSIVE GroupKeys(_)
GroupKeys(stmts) ==
    IF stmts = <<>> THEN <<>>
    ELSE LET front == GroupKeys(SubSeq(stmts, 1, Len(stmts) - 1))
             h == stmts[Len(stmts)].hash
         IN IF \E i \in DOMAIN front : front[i] = h THEN front
            ELSE Append(front, h)

MakeJsonModel(stmts, c) ==
    LET keys == GroupKeys(stmts)
    IN [i \in DOMAIN keys |->
          [key |-> ToStr(keys[i]),
           stmts_formatted |->
              LET members == SelectSeq(stmts, LAMBDA s : s.hash = keys[i])
              IN [j \in DOMAIN members |-> StmtDict(members[j], c)]]]

\* the document get_json_content builds from the unpickled statements
Render(stmts, grouped, c) ==
    IF grouped
    THEN [grouped |-> TRUE, stmts |-> MakeJsonModel(stmts, c)]
    ELSE LET ordered == SortedStmts(stmts)
         IN [grouped |-> FALSE,
             stmts |-> [i \in DOMAIN ordered |-> StmtDict(ordered[i], c)]]

\* _put_file(file_path, content)
_put_file(fs, file_path, content) ==
    IF file_path \in DOMAIN fs THEN [fs EXCEPT ![file_path] = content]
    ELSE fs @@ (file_path :> content)

\* what _list_files(name) may return for the directory as it is
Listings(name) == {_list_files(order, name) : order \in ScanOrders}

\* what the selection loop may end with for the directory as it is
Selections(name, regenerate) ==
    {SelectFile(options, regenerate, <<>>) : options \in Listings(name)}

\* the calls of get_json_content that may raise for a reason outside the
\* program: _get_file (the backend read) and the construction of the
\* document (the assembler, the formatting helpers, get_hash)
Faults == {"none", "read", "build"}

\* mutant: the .json is opened for writing before the document is built
FilesOnRaise_Partial(fs, file_path) ==
    _put_file(fs, ReplacePkl(file_path), JsonDumps(NoDoc))

\* the working directory a request leaves when a call before _put_file
\* raises: _put_file is the last call before the return
FilesOnRaise(fs, file_path) == fs

\* GET /json/<name>?regen=..&grouped=.. from the end of the selection loop,
\* with the given call raising
JsonOutcome(name, regenerate, grouped, sel, fault) ==
    LET file_path == sel.file_path
        base == [Response("json", 200) EXCEPT
                   !.name = name, !.regen = regenerate]
    IN IF file_path = <<>>
       THEN \* abort(400, "Invalid name: ...")
            /\ resp' = [base EXCEPT !.status = 400]
            /\ UNCHANGED files
       ELSE IF fault = "read"
       THEN \* _get_file raises
            /\ resp' = [base EXCEPT !.status = 500, !.fault = fault]
            /\ files' = FilesOnRaise(files, file_path)
       ELSE LET raw_content == files[file_path]
            IN IF sel.is_json
               THEN /\ resp' = [base EXCEPT !.doc = JsonLoads(raw_content)]
                    /\ UNCHANGED files
               ELSE IF raw_content.kind # "pickle"
               THEN \* pickle.loads raises
                    /\ resp' = [base EXCEPT !.status = 500]
                    /\ files' = FilesOnRaise(files, file_path)
               ELSE IF fault = "build"
               THEN \* the grouped or the ungrouped branch raises
                    /\ resp' = [base EXCEPT !.status = 500, !.fault = fault]
                    /\ files' = FilesOnRaise(files, file_path)
               ELSE LET result == Render(raw_content.stmts, grouped, cache)
                        json_file_path == ReplacePkl(file_path)
                    IN /\ files' = _put_file(files, json_file_path,
                                             JsonDumps(result))
                       /\ resp' = [base EXCEPT !.wrote = json_file_path,
                                     !.doc = result]

\* the calls that are made once the selection loop ended with `sel`
FaultsFor(sel) ==
    IF sel.file_path = <<>> THEN {"none"}
    ELSE IF sel.is_json THEN {"none", "read"}
    ELSE Faults

\* the request when no call raises for a reason outside the program
JsonSelected(name, regenerate, grouped, sel) ==
    JsonOutcome(name, regenerate, grouped, sel, "none")

\* GET /json/<name>?regen=..&grouped=.., _list_files(name) giving `options`
JsonRequest(name, regenerate, grouped, options) ==
    JsonSelected(name, regenerate, grouped,
                 SelectFile(options, regenerate, <<>>))

get_json_content ==
    /\ \E name \in Names, regenerate \in BOOLEAN, grouped \in BOOLEAN :
         \E sel \in Selections(name, regenerate) :
           \E fault \in FaultsFor(sel) :
             JsonOutcome(name, regenerate, grouped, sel, fault)
    /\ UNCHANGED <<now, last_updated, cache, db, nextId, appended, threads>>

\* option.replace(ending, '') (and the removal of WORKING_DIR, which the
\* file names here do not carry)
ReplaceEnding(fn, ending) == SelectSeq(fn, LAMBDA t : t # ending)

\* the options set list_names builds from a listing
ListOptions(listing) ==
    {ReplaceEnding(listing[i], ending) :
       <<i, ending>> \in {p \in (DOMAIN listing) \X {".html", ".pkl"} :
                            EndsWith(listing[p[1]], p[2])}}

\* GET /list, on either backend (WORKING_DIR is set: the assert passes)
list_names ==
    /\ \E options \in
           {ListOptions(_list_files(order, <<>>)) : order \in ScanOrders}
             \cup {ListOptions(_list_files_s3(order, <<>>)) :
                      order \in ScanOrders} :
         resp' = [Response("names", 200) EXCEPT !.names = options]
    /\ UNCHANGED <<now, last_updated, cache, db, nextId, files, appended,
                   threads>>

\* a pickle is put into the working directory, or one is replaced
PutRaw ==
    /\ \E name \in Names :
         \E content \in RawContents(name) :
             files' = _put_file(files, FileName(name, ".pkl"), content)
    /\ UNCHANGED <<now, last_updated, cache, db, nextId, resp, appended,
                   threads>>

\* a file is removed from the working directory
RemoveFile ==
    /\ \E fn \in DOMAIN files :
         files' = [f \in DOMAIN files \ {fn} |-> files[f]]
    /\ UNCHANGED <<now, last_updated, cache, db, nextId, resp, appended,
                   threads>>

Next ==
    \/ Tick
    \/ ExtInsert
    \/ ExtDelete
    \/ Main
    \/ submit_curation_to_db
    \/ get_curation
    \/ get_curation_list
    \/ update_curations_endpoint

Spec == Init /\ [][Next]_vars

\* a submit for one of the evidences the pickles hold
SubmitForEvidence ==
    \E source_hash \in SubmitSourceHashes :
      SubmitRequest(JInt(StmtsA[1].hash), source_hash)

\* the render pipeline with the curation cache changing under it
RenderNext ==
    \/ PutRaw
    \/ RemoveFile
    \/ get_json_content
    \/ SubmitForEvidence
    \/ list_names

SpecRender == Init /\ [][RenderNext]_vars

\* the pickles whose rendering order is checked: every list of at most
\* MaxStmts statements with one or two evidences and one of three hashes
SortStmts == {Stmt(h, ev) : h \in {1, 4, 7}, ev \in {<<5>>, <<5, 6>>}}
SortInputs == UNION {[1..n -> SortStmts] : n \in 0..MaxStmts}

\* the working directory holds a.pkl with one of those lists
InitSort ==
    /\ now = 0
    /\ last_updated = None
    /\ cache = EmptyDict
    /\ db = <<>>
    /\ nextId = 1
    /\ \E stmts \in SortInputs :
         files = (FileName(<<"a">>, ".pkl") :> Pickle(stmts))
    /\ resp = Response("none", 0)
    /\ appended = {}
    /\ threads = NoThreads

SortNext == get_json_content

SpecSort == InitSort /\ [][SortNext]_vars

\* ------------------------------------ the curation handlers, step by step
\* The server handles each request in a thread of its own and nothing locks
\* CURATIONS, so the statements of one handler run between those of another.
\* The keys read
ReadKeys == {<<h, src>> : h \in KnownHashes, src \in SourceHashes}

\* mutant: the map in place is kept while the rows are fetched
CacheOnReset_Keep(c) == c

\* CURATIONS['cache'] = {}
CacheOnReset(c) == EmptyDict

\* POST /curations/update_cache enters update_curations(), which runs its
\* first statement
UpdReset ==
    /\ threads.upd.pc = "idle"
    /\ threads' = [threads EXCEPT !.upd =
                     [pc |-> "reset", rows |-> <<>>, had |-> DOMAIN cache]]
    /\ cache' = CacheOnReset(cache)
    /\ appended' = {}
    /\ UNCHANGED <<now, last_updated, db, nextId, files, resp>>

\* db = get_db('primary'); curations = db.select_all(db.Curation), or one
\* of the two raises and the request ends
UpdQuery ==
    /\ threads.upd.pc = "reset"
    /\ \E dbOk \in BOOLEAN :
         IF dbOk
         THEN /\ threads' = [threads EXCEPT !.upd.pc = "rows",
                                            !.upd.rows = db]
              /\ UNCHANGED resp
         ELSE /\ threads' = [threads EXCEPT !.upd = IdleUpdate]
              /\ resp' = [Response("update_cache", 500) EXCEPT
                            !.refreshes = 1, !.refresh_raised = TRUE]
    /\ UNCHANGED <<now, last_updated, cache, db, nextId, files, appended>>

\* one turn of the loop over the rows
UpdRow ==
    /\ threads.upd.pc = "rows"
    /\ threads.upd.rows # <<>>
    /\ cache' = AddCuration(cache, Head(threads.upd.rows))
    /\ threads' = [threads EXCEPT !.upd.rows = Tail(@)]
    /\ UNCHANGED <<now, last_updated, db, nextId, files, resp, appended>>

\* CURATIONS['last_updated'] = datetime.now(), the return, and the answer
\* to a view that returned None
UpdStamp ==
    /\ threads.upd.pc = "rows"
    /\ threads.upd.rows = <<>>
    /\ last_updated' = Stamp(now)
    /\ threads' = [threads EXCEPT !.upd = IdleUpdate]
    /\ resp' = [Response("update_cache", 500) EXCEPT !.refreshes = 1]
    /\ UNCHANGED <<now, cache, db, nextId, files, appended>>

\* POST /curations/submit up to the return of submit_curation
SubPersist ==
    /\ threads.sub = <<>>
    /\ \E stmt_hash \in SubmitStmtHashes, source_hash \in SubmitSourceHashes :
         LET pa_hash == ToInt(stmt_hash)
             src == ToInt(source_hash)
             key == <<pa_hash, src>>
             entry == [id |-> nextId, stmt_hash |-> stmt_hash,
                       source_hash |-> source_hash]
         IN IF submit_curation(pa_hash) = "BadHashError"
            THEN /\ resp' = [Response("submit", 400) EXCEPT !.key = key]
                 /\ UNCHANGED <<db, nextId, threads>>
            ELSE /\ nextId <= MaxRows
                 /\ db' = Append(db, [id |-> nextId, pa_hash |-> pa_hash,
                                       source_hash |-> src])
                 /\ nextId' = nextId + 1
                 /\ threads' = [threads EXCEPT !.sub =
                                  <<[key |-> key, entry |-> entry]>>]
                 /\ UNCHANGED resp
    /\ UNCHANGED <<now, last_updated, cache, files, appended>>

\* the rest of POST /curations/submit: the entry goes into the cache
SubAppend ==
    /\ threads.sub # <<>>
    /\ LET key == threads.sub[1].key
           entry == threads.sub[1].entry
       IN /\ cache' = CacheAppend(cache, key, entry)
          /\ appended' = appended \cup {<<key, entry.id>>}
          /\ resp' = [Response("submit", 200) EXCEPT
                        !.key = key, !.id = <<entry.id>>]
    /\ threads' = [threads EXCEPT !.sub = <<>>]
    /\ UNCHANGED <<now, last_updated, db, nextId, files>>

\* GET /curations/<stmt_hash>/<ev_hash> that finds the cache fresh (or
\* never loaded, which raises): no refresh, the answer is read off the map
FreshRead ==
    /\ \E key \in ReadKeys :
         IF last_updated = None
         THEN resp' = [Response("get", 500) EXCEPT !.key = key]
         ELSE /\ ~IsStale
              /\ resp' = [Response("get", 200) EXCEPT
                            !.key = key, !.records = DictGet(cache, key)]
    /\ UNCHANGED <<now, last_updated, cache, db, nextId, files, appended,
                   threads>>

\* requests served at the same time within the hour after a load; rows may
\* be inserted by other processes meanwhile
ConcNext ==
    \/ ExtInsert
    \/ Main
    \/ UpdReset
    \/ UpdQuery
    \/ UpdRow
    \/ UpdStamp
    \/ SubPersist
    \/ SubAppend
    \/ FreshRead

SpecConc == Init /\ [][ConcNext]_vars

\* --------------------------------------- GET /json/<name>, step by step
\* the request up to the call of _put_file: selection, read, unpickling and
\* construction of the document from the cache as it is; a request that
\* does not render ends here
RenderBuild ==
    /\ \E t \in 1..MaxRenders :
         /\ threads.rnd[t].pc = "idle"
         /\ \E name \in Names, regenerate \in BOOLEAN, grouped \in BOOLEAN :
              \E sel \in Selections(name, regenerate) :
                LET base == [IdleRender EXCEPT
                               !.pc = "done", !.name = name,
                               !.regen = regenerate, !.grouped = grouped]
                    file_path == sel.file_path
                    req ==
                      IF file_path = <<>> THEN [base EXCEPT !.status = 400]
                      ELSE IF sel.is_json
                      THEN [base EXCEPT !.status = 200,
                              !.doc = JsonLoads(files[file_path])]
                      ELSE IF files[file_path].kind # "pickle"
                      THEN [base EXCEPT !.status = 500]
                      ELSE [base EXCEPT
                              !.pc = "built", !.status = 200,
                              !.path = ReplacePkl(file_path),
                              !.doc = Render(files[file_path].stmts, grouped,
                                             cache)]
                    inflight == {u \in 1..MaxRenders :
                                   threads.rnd[u].pc = "built"}
                IN threads' = [threads EXCEPT
                                 !.rnd[t] = req,
                                 !.overlap =
                                   IF req.pc = "built"
                                   THEN @ \cup {{t, u} : u \in inflight}
                                   ELSE @]
    /\ UNCHANGED <<now, last_updated, cache, db, nextId, files, resp,
                   appended>>

\* _put_file(json_file_path, json.dumps(result, indent=2)) and the return
RenderWrite ==
    /\ \E t \in 1..MaxRenders :
         /\ threads.rnd[t].pc = "built"
         /\ files' = _put_file(files, threads.rnd[t].path,
                               JsonDumps(threads.rnd[t].doc))
         /\ threads' = [threads EXCEPT !.rnd[t].pc = "done"]
    /\ UNCHANGED <<now, last_updated, cache, db, nextId, resp, appended>>

\* a.pkl is in the working directory when the requests arrive
InitConcRender ==
    /\ now = 0
    /\ last_updated = None
    /\ cache = EmptyDict
    /\ db = <<>>
    /\ nextId = 1
    /\ files = (FileName(<<"a">>, ".pkl") :> Pickle(StmtsA))
    /\ resp = Response("none", 0)
    /\ appended = {}
    /\ threads = NoThreads

\* GET /json requests served at the same time, with submits and refreshes
\* between their steps
ConcRenderNext ==
    \/ RenderBuild
    \/ RenderWrite
    \/ SubmitForEvidence
    \/ update_curations_endpoint

SpecConcRender == InitConcRender /\ [][ConcRenderNext]_vars

\* ================================================================= claims
\* a step of one of the two read handlers
ReadStep == get_curation \/ get_curation_list
\* the answer of a read is computed from the cache the handler leaves
AnswerFromCache ==
    /\ resp'.op = "get" => resp'.records = DictGet(cache', resp'.key)
    /\ resp'.op = "list" => resp'.listing = Listing(cache')

\* C1: a read on a loaded cache calls update_curations exactly once when
\* now - last_updated is more than one hour, and then answers from the
\* rebuilt cache; when it is one hour or less it calls it zero times and
\* leaves last_updated (and the cache) as they were.
C1_ReadRefreshesIffStale ==
    [][(last_updated # None /\ ReadStep) =>
         IF now - last_updated[1] > StaleSeconds
         THEN /\ resp'.refreshes = 1
              /\ ~resp'.refresh_raised =>
                   /\ resp'.status = 200
                   /\ last_updated' = Stamp(now)
                   /\ AnswerFromCache
         ELSE /\ resp'.refreshes = 0
              /\ last_updated' = last_updated
              /\ cache' = cache
              /\ resp'.status = 200
              /\ AnswerFromCache]_vars

\* a read found the cache older than one hour and answered after a refresh
C1_Witness ==
    /\ resp.op = "get"
    /\ resp.status = 200
    /\ resp.refreshes = 1
    /\ resp.records # <<>>

\* C2: a read on a cache that was never loaded (last_updated None) performs
\* a refresh and answers from the refreshed cache instead of failing.
C2_NeverLoadedReadRefreshes ==
    [][(last_updated = None /\ ReadStep) =>
         /\ resp'.refreshes = 1
         /\ ~resp'.refresh_raised =>
              /\ resp'.status = 200
              /\ last_updated' = Stamp(now)
              /\ AnswerFromCache]_vars

\* C3: after a successful submit for a key, a later read of that key with no
\* update_curations call in between (none by the read either) returns a list
\* holding a record with the id the submit got.
C3_ReadAfterSubmitReturnsRecord ==
    [][(get_curation /\ resp'.refreshes = 0) =>
         \A a \in appended :
           a[1] = resp'.key =>
             /\ resp'.status = 200
             /\ \E i \in DOMAIN resp'.records : resp'.records[i].id = a[2]]_vars

\* What holds of C3 in every state: until update_curations is called again,
\* every record a successful submit appended is in the list of its key, and
\* a read that answers returns it.
C3_SubmittedVisibleBeforeRefresh ==
    /\ \A a \in appended :
         \E i \in DOMAIN DictGet(cache, a[1]) : cache[a[1]][i].id = a[2]
    /\ (resp.op = "get" /\ resp.status = 200) =>
         \A a \in appended :
           a[1] = resp.key =>
             \E i \in DOMAIN resp.records : resp.records[i].id = a[2]

\* a read without refresh returned the one record a submit created the
\* list of its key for
C3_Witness ==
    /\ resp.op = "get"
    /\ resp.status = 200
    /\ resp.refreshes = 0
    /\ Len(resp.records) = 1
    /\ <<resp.key, resp.records[1].id>> \in appended

\* C4: a submit the database rejects with BadHashError is answered 400 and
\* leaves the cache map, its lists and last_updated as they were.
C4_BadHashLeavesCache ==
    [][\A stmt_hash \in SubmitStmtHashes, source_hash \in SubmitSourceHashes :
         (/\ submit_curation(ToInt(stmt_hash)) = "BadHashError"
          /\ SubmitRequest(stmt_hash, source_hash)) =>
             /\ resp'.status = 400
             /\ cache' = cache
             /\ last_updated' = last_updated]_vars

\* a submit was rejected while the cache held curations
C4_Witness ==
    /\ resp.op = "submit"
    /\ resp.status = 400
    /\ cache # EmptyDict
    /\ last_updated # None

\* a step that ran update_curations to its end
RefreshDone ==
    /\ Main \/ update_curations_endpoint \/ ReadStep
    /\ resp'.refreshes = 1
    /\ ~resp'.refresh_raised
\* the rows of the table with the key k, in query-return order
RowsWithKey(k) ==
    SelectSeq(db, LAMBDA r : <<r.pa_hash, r.source_hash>> = k)

\* C5: after update_curations ran to its end the cache has one key per
\* distinct (pa_hash, source_hash) of the table, each key maps to the rows
\* with that pair in query-return order, and nothing else is in the cache.
C5_RefreshRebuildsFromStore ==
    [][RefreshDone =>
         /\ DOMAIN cache' =
              {<<db[i].pa_hash, db[i].source_hash>> : i \in DOMAIN db}
         /\ \A k \in DOMAIN cache' :
              /\ Len(cache'[k]) = Len(RowsWithKey(k))
              /\ \A i \in DOMAIN cache'[k] :
                   /\ cache'[k][i].id = RowsWithKey(k)[i].id
                   /\ ToInt(cache'[k][i].stmt_hash) = k[1]
                   /\ ToInt(cache'[k][i].source_hash) = k[2]
         /\ \A k \in DOMAIN cache' : \A i \in DOMAIN cache'[k] :
              \E j \in DOMAIN db : db[j].id = cache'[k][i].id]_vars

\* a forced refresh grouped two rows of the table under one key
C5_Witness ==
    /\ resp.op = "update_cache"
    /\ resp.refreshes = 1
    /\ ~resp.refresh_raised
    /\ \E k \in DOMAIN cache :
         /\ Len(cache[k]) = 2
         /\ cache[k][1].id < cache[k][2].id

\* a step of GET /json/<name> with the given arguments and listing
JsonStep(name, regenerate, grouped) ==
    \E options \in Listings(name) :
      JsonRequest(name, regenerate, grouped, options)
Raw(name) == FileName(name, ".pkl")
Rendered(name) == FileName(name, ".json")
HasRaw(name) == Raw(name) \in DOMAIN files /\ files[Raw(name)].kind = "pickle"
HasRendered(name) == Rendered(name) \in DOMAIN files

\* C6: for a name with a raw artifact and no rendered one, resolve without
\* regen renders the raw artifact and persists it as the .json of the name;
\* from then on resolve without regen returns the stored .json of the name
\* and neither renders nor writes, whatever the pickle and the cache hold.
C6_RenderOnceThenStored ==
    [][\A name \in Names, grouped \in BOOLEAN :
         JsonStep(name, FALSE, grouped) =>
           /\ (HasRaw(name) /\ ~HasRendered(name)) =>
                /\ resp'.status = 200
                /\ resp'.doc = Render(files[Raw(name)].stmts, grouped, cache)
                /\ Rendered(name) \in DOMAIN files'
                /\ files'[Rendered(name)] = JsonDumps(resp'.doc)
           /\ HasRendered(name) =>
                /\ resp'.status = 200
                /\ resp'.doc = JsonLoads(files[Rendered(name)])
                /\ resp'.wrote = <<>>
                /\ files' = files]_vars

RawOptions(options) == SelectSeq(options, LAMBDA fn : EndsWith(fn, ".pkl"))

C8_MissingNameFailsAndRecovers ==
    [][\A name \in Names, regenerate \in BOOLEAN, grouped \in BOOLEAN :
         JsonStep(name, regenerate, grouped) =>
           /\ (Raw(name) \notin DOMAIN files /\ ~HasRendered(name)) =>
                resp'.status = 400 /\ files' = files
           /\ HasRaw(name) => resp'.status = 200]_vars

\* C9: the ungrouped rendering lists the statements of the pickle, each
\* once, by evidence count descending and, among equal counts, by hash
\* descending.
C9_UngroupedOrder ==
    (resp.op = "json" /\ resp.status = 200 /\ resp.wrote # <<>>
       /\ ~resp.doc.grouped) =>
      LET inp == files[Raw(<<"a">>)].stmts
          out == resp.doc.stmts
          InKey(i) == <<Len(inp[i].evidence), inp[i].hash>>
          OutKey(i) == <<out[i].evidence_count, ToInt(out[i].hash)>>
      IN /\ Len(out) = Len(inp)
         /\ \A i \in DOMAIN inp :
              Cardinality({j \in DOMAIN inp : InKey(j) = InKey(i)})
                = Cardinality({j \in DOMAIN out : OutKey(j) = InKey(i)})
         /\ \A i \in 1..(Len(out) - 1) :
              \/ OutKey(i)[1] > OutKey(i + 1)[1]
              \/ /\ OutKey(i)[1] = OutKey(i + 1)[1]
                 /\ OutKey(i)[2] >= OutKey(i + 1)[2]

\* three statements were rendered ungrouped, the first two tied on evidence
\* count, and the first of the pickle did not stay first
C9_Witness ==
    /\ resp.op = "json"
    /\ resp.status = 200
    /\ resp.wrote # <<>>
    /\ ~resp.doc.grouped
    /\ Len(resp.doc.stmts) = 3
    /\ resp.doc.stmts[1].evidence_count = resp.doc.stmts[2].evidence_count
    /\ resp.doc.stmts[1].hash # resp.doc.stmts[2].hash
    /\ resp.doc.stmts[3].evidence_count < resp.doc.stmts[2].evidence_count
    /\ ToInt(resp.doc.stmts[1].hash) # files[Raw(<<"a">>)].stmts[1].hash

\* C10: with a rendered artifact of the name in place and no regen, resolve
\* returns that stored document for both values of grouped, wherever the
\* artifact stands in the listing and whatever the pickle holds, and leaves
\* every file as it is.
C10_StoredIsAuthoritative ==
    [][\A name \in Names, grouped \in BOOLEAN :
        \A options \in Listings(name) :
          (JsonRequest(name, FALSE, grouped, options) /\ HasRendered(name)) =>
             /\ resp'.status = 200
             /\ resp'.doc = JsonLoads(files[Rendered(name)])
             /\ files' = files]_vars

\* a step of GET /json/<name> that answers r
JsonStepOf(r) ==
    \E sel \in Selections(r.name, r.regen) :
      \E grouped \in BOOLEAN, fault \in FaultsFor(sel) :
        JsonOutcome(r.name, r.regen, grouped, sel, fault)

\* C11: a request that fails before _put_file (the read raises, the pickle
\* does not load, the construction of the document raises) leaves every
\* file, and so the rendered artifact of the name, as it was; a request that
\* renders writes once, the complete document, and changes no other file.
C11_FailedRenderLeavesStored ==
    [][(resp'.op = "json" /\ JsonStepOf(resp')) =>
         /\ resp'.status # 200 => files' = files
         /\ (resp'.status = 200 /\ resp'.wrote # <<>>) =>
              /\ files'[resp'.wrote] = JsonDumps(resp'.doc)
              /\ \A fn \in (DOMAIN files \cup DOMAIN files') \ {resp'.wrote} :
                   /\ fn \in DOMAIN files
                   /\ fn \in DOMAIN files'
                   /\ files'[fn] = files[fn]
         /\ (resp'.status = 200 /\ resp'.wrote = <<>>) => files' = files]_vars

\* a forced render of a name failed while the document was built, and the
\* earlier rendering of the name is in place
C11_Witness ==
    /\ resp.op = "json"
    /\ resp.status = 500
    /\ resp.fault = "build"
    /\ resp.regen
    /\ HasRendered(resp.name)
    /\ files[Rendered(resp.name)].doc.stmts # <<>>

\* the prefixes listed: the empty one of GET /list, the names, and one that
\* no file of the directory starts with
ListPrefixes == Names \cup {<<>>, <<"b">>}

\* C12: on both backends _list_files returns an empty sequence for a prefix
\* no file starts with, and GET /list answers 200, with an empty array when
\* the directory holds no .html and no .pkl file.
C12_EmptyListingNoError ==
    [][(resp'.op = "names" /\ list_names) =>
         /\ resp'.status = 200
         /\ \A prefix \in ListPrefixes, order \in ScanOrders :
              (\A fn \in DOMAIN files : ~StartsWith(fn, prefix)) =>
                 /\ _list_files(order, prefix) = <<>>
                 /\ _list_files_s3(order, prefix) = <<>>
         /\ (\A fn \in DOMAIN files :
                ~EndsWith(fn, ".html") /\ ~EndsWith(fn, ".pkl")) =>
              resp'.names = {}]_vars

\* GET /list answered an empty array for a directory that holds rendered
\* artifacts only
C12_Witness ==
    /\ resp.op = "names"
    /\ resp.status = 200
    /\ resp.names = {}
    /\ files # EmptyDict
    /\ \A fn \in DOMAIN files : EndsWith(fn, ".json")

\* C13: when the listing of a name holds several pickles and the selection
\* loop does not end on a rendered artifact, the pickle that is loaded and
\* rendered is the first one listed.
C13_FirstRawWins ==
    [][\A name \in Names, regenerate \in BOOLEAN, grouped \in BOOLEAN :
        (resp'.op = "json" /\ resp'.name = name
           /\ resp'.regen = regenerate) =>
        \A options \in Listings(name) :
          LET raws == RawOptions(options)
          IN (/\ JsonRequest(name, regenerate, grouped, options)
              /\ ~SelectFile(options, regenerate, <<>>).is_json
              /\ Len(raws) > 1
              /\ \A i \in DOMAIN raws : files[raws[i]].kind = "pickle") =>
                /\ resp'.status = 200
                /\ resp'.wrote = ReplacePkl(raws[1])
                /\ resp'.doc = Render(files[raws[1]].stmts, grouped, cache)]_vars

\* C14: a read that finds the cache fresh while update_curations is in
\* flight does not wait for it and does not refresh: it answers from the map
\* as the refresh has left it so far, which right after the reset is empty
\* for every key, the keys cached before and still in the table included.
C14_ReadSeesPartialRefresh ==
    [][(FreshRead /\ last_updated # None /\ threads.upd.pc # "idle") =>
         /\ resp'.status = 200
         /\ resp'.refreshes = 0
         /\ resp'.records = DictGet(cache, resp'.key)
         /\ (threads.upd.pc = "reset" /\ appended = {}) =>
              resp'.records = <<>>]_vars

\* while a refresh is in flight a read was answered with an empty list for
\* a key that was cached when the refresh began and has a row in the table
C14_Witness ==
    /\ threads.upd.pc # "idle"
    /\ resp.op = "get"
    /\ resp.status = 200
    /\ resp.refreshes = 0
    /\ resp.records = <<>>
    /\ resp.key \in threads.upd.had
    /\ \E j \in DOMAIN db : <<db[j].pa_hash, db[j].source_hash>> = resp.key

\* the requests that took the render path and returned
Rendering == {t \in 1..MaxRenders :
                threads.rnd[t].pc = "done" /\ threads.rnd[t].path # <<>>}

\* C15: when requests for the same name with the same flags that were in
\* flight together have all rendered and returned, the stored rendered
\* artifact is the document each of them wrote, whatever submits and
\* refreshes ran between their steps: the writes are the same write.
C15_ConcurrentRendersIdempotent ==
    (/\ \A t \in 1..MaxRenders : threads.rnd[t].pc # "built"
     /\ \A t \in Rendering, u \in Rendering :
          /\ threads.rnd[t].name = threads.rnd[u].name
          /\ threads.rnd[t].regen = threads.rnd[u].regen
          /\ threads.rnd[t].grouped = threads.rnd[u].grouped
          /\ t # u => {t, u} \in threads.overlap) =>
       \A t \in Rendering :
         files[threads.rnd[t].path] = JsonDumps(threads.rnd[t].doc)

\* C16: a submit that succeeds for the key k appends one record, with the id
\* the database returned, at the end of the list of k and keeps the records
\* that were there in their order; every other key keeps its list, no key
\* but k is added, last_updated is unchanged and update_curations is not
\* called.
C16_SubmitAppendsOneRecord ==
    [][\A stmt_hash \in SubmitStmtHashes, source_hash \in SubmitSourceHashes :
         (/\ submit_curation(ToInt(stmt_hash)) = "ok"
          /\ SubmitRequest(stmt_hash, source_hash)) =>
            LET k == <<ToInt(stmt_hash), ToInt(source_hash)>>
                before == DictGet(cache, k)
            IN /\ resp'.status = 200
               /\ DOMAIN cache' = DOMAIN cache \cup {k}
               /\ Len(cache'[k]) = Len(before) + 1
               /\ SubSeq(cache'[k], 1, Len(before)) = before
               /\ cache'[k][Len(before) + 1].id = resp'.id[1]
               /\ cache'[k][Len(before) + 1].stmt_hash = stmt_hash
               /\ cache'[k][Len(before) + 1].source_hash = source_hash
               /\ \A j \in DOMAIN cache \ {k} : cache'[j] = cache[j]
               /\ last_updated' = last_updated
               /\ resp'.refreshes = 0]_vars

\* a submit appended a second record behind the one its key had, on a cache
\* that was older than one hour
C16_Witness ==
    /\ resp.op = "submit"
    /\ resp.status = 200
    /\ Len(cache[resp.key]) = 2
    /\ cache[resp.key][2].id = resp.id[1]
    /\ cache[resp.key][1].id < resp.id[1]
    /\ last_updated # None
    /\ now - last_updated[1] > StaleSeconds

\* C17: when update_curations raises because the database cannot be reached
\* or the query fails, in a read or in POST /curations/update_cache, the
\* cache map and last_updated are as they were before the call.
C17_FailedRefreshKeepsCache ==
    [][((update_curations_endpoint \/ ReadStep) /\ resp'.refresh_raised) =>
         /\ cache' = cache
         /\ last_updated' = last_updated]_vars

\* C18: a request for a name reads and writes only the artifacts whose stem
\* is the name: what it returns without rendering is the stored .json of the
\* name, what it renders is the .pkl of the name, what it writes is the
\* .json of the name, and every other file is left as it is.
C18_ExactStemOnly ==
    [][\A name \in Names :
         (resp'.op = "json" /\ resp'.name = name /\ JsonStepOf(resp')) =>
            /\ resp'.wrote \in {<<>>, Rendered(name)}
            /\ \A fn \in (DOMAIN files \cup DOMAIN files') \ {Rendered(name)} :
                 /\ fn \in DOMAIN files
                 /\ fn \in DOMAIN files'
                 /\ files'[fn] = files[fn]
            /\ (resp'.status = 200 /\ resp'.wrote = <<>>) =>
                 /\ HasRendered(name)
                 /\ resp'.doc = JsonLoads(files[Rendered(name)])
            /\ (resp'.status = 200 /\ resp'.wrote # <<>>) =>
                 /\ HasRaw(name)
                 /\ resp'.doc =
                      Render(files[Raw(name)].stmts, resp'.doc.grouped, cache)]_vars

\* C19: under every interleaving of submits and refreshes no id occurs twice
\* in the cache, be it in one list or in two.
C19_NoDuplicateIds ==
    \A k1 \in DOMAIN cache, k2 \in DOMAIN cache :
      \A i \in DOMAIN cache[k1], j \in DOMAIN cache[k2] :
        cache[k1][i].id = cache[k2][j].id => (k1 = k2 /\ i = j)

\* C20: every record in the cache is stored under the key made of its own
\* statement hash and source hash, and, as long as no row was deleted from
\* the table, it has the id and the hashes of a row of the table.
C20_CacheShadowsStore ==
    \A k \in DOMAIN cache : \A i \in DOMAIN cache[k] :
      /\ k = <<ToInt(cache[k][i].stmt_hash), ToInt(cache[k][i].source_hash)>>
      /\ Len(db) = nextId - 1 =>
           \E j \in DOMAIN db :
             /\ db[j].id = cache[k][i].id
             /\ <<db[j].pa_hash, db[j].source_hash>> = k

\* with no row deleted, the cache holds a record read from the table and,
\* behind it, one appended by a submit whose statement hash came as a string
C20_Witness ==
    /\ Len(db) = nextId - 1
    /\ \E k \in DOMAIN cache :
         /\ Len(cache[k]) = 2
         /\ cache[k][1].stmt_hash = JInt(k[1])
         /\ cache[k][2].stmt_hash = JStr(k[1])
         /\ <<k, cache[k][2].id>> \in appended
         /\ <<k, cache[k][1].id>> \notin appended

====
